---- MODULE Spec2Model ----
(***************************************************************************)
(* MIRACLRerankingEvaluator (mteb/tasks/Reranking/multilingual/            *)
(* MIRACLReranking.py): the rerank scorer and the two metric-computation   *)
(* strategies, compute_metrics_batched and compute_metrics_individual.     *)
(*                                                                         *)
(* One evaluator is built over `samples` with use_batched_encoding = True  *)
(* (its run is the record `batched`) and one with use_batched_encoding =   *)
(* False (its run is the record `individual`); both are given the same     *)
(* `model`, the batched one is called first.  `call` is one invocation of  *)
(* rerank on arbitrary embedding blocks.                                   *)
(***************************************************************************)
EXTENDS Integers, Sequences, FiniteSets, TLC

VARIABLES samples, model, batched, individual, call

vars == <<samples, model, batched, individual, call>>

(***************************************************************************)
(* Bounds of the explored inputs.                                          *)
(***************************************************************************)
MaxSamples == 2
MaxVariants == 2
MaxCands == 2

QueryTexts == {"q1", "q2"}
DocTexts == {"a", "b"}

(***************************************************************************)
(* Python helpers.                                                         *)
(***************************************************************************)
Digit == <<"0", "1", "2", "3", "4", "5", "6", "7", "8", "9">>

\* str(i) of a non-negative int: its decimal digits.
RECURSIVE str(_)
str(n) == IF n < 10 THEN Digit[n + 1] ELSE str(n \div 10) \o Digit[(n % 10) + 1]

Min(a, b) == IF a < b THEN a ELSE b

\* arr[lo:hi] on the first axis; Python clamps both ends to the length.
Slice(arr, lo, hi) == SubSeq(arr, Min(lo, Len(arr)) + 1, Min(hi, Len(arr)))

\* {str(i): value[i] for i in range(len(values))}: keys inserted left to
\* right, a later insertion under an existing key replaces the earlier one.
RECURSIVE DictOfEnumerate(_, _)
DictOfEnumerate(values, n) ==
    IF n = 0 THEN <<>>
    ELSE (str(n - 1) :> values[n]) @@ DictOfEnumerate(values, n - 1)

\* d[key] = value
DictSet(d, key, value) == (key :> value) @@ d

RECURSIVE Flatten(_)
Flatten(ss) == IF ss = <<>> THEN <<>> ELSE Head(ss) \o Flatten(Tail(ss))

RECURSIVE SumSeq(_)
SumSeq(ns) == IF ns = <<>> THEN 0 ELSE Head(ns) + SumSeq(Tail(ns))

(***************************************************************************)
(* Samples.  A query is a str or a list of str.                            *)
(***************************************************************************)
StrQuery(t) == [kind |-> "str", text |-> t, variants |-> <<>>]
ListQuery(vs) == [kind |-> "list", text |-> "", variants |-> vs]

\* isinstance(query, str) / isinstance(query, list)
IsStr(query) == query.kind = "str"
IsList(query) == query.kind = "list"

\* The characters of a str, what `for q in query` yields when query is a str.
CharsOf(t) == CASE t = "q1" -> <<"q", "1">>
                [] t = "q2" -> <<"q", "2">>
                [] OTHER -> <<>>

(***************************************************************************)
(* The model under evaluation.  Every model has the generic encode; it may *)
(* also have encode_queries and encode_corpus.  The three functions embed  *)
(* the same text differently (a query or passage instruction is added).    *)
(* An embedding is a vector of two integers, of length 5 (the encoders     *)
(* normalise), or the zero vector for an input outside the vocabulary.     *)
(***************************************************************************)
OovEmb == <<0, 0>>

EncodeTable ==
    [q1 |-> <<3, 4>>, q2 |-> <<4, 3>>, a |-> <<5, 0>>, b |-> <<0, 5>>]
EncodeQueriesTable ==
    [q1 |-> <<5, 0>>, q2 |-> <<0, 5>>, a |-> <<3, 4>>, b |-> <<4, 3>>]
EncodeCorpusTable ==
    [q1 |-> <<4, 3>>, q2 |-> <<3, 4>>, a |-> <<0, 5>>, b |-> <<5, 0>>]

Embed(table, t) == IF t \in DOMAIN table THEN table[t] ELSE OovEmb

\* func(texts, batch_size=...): one embedding per text, in order.
EncodeTexts(func, texts) ==
    [j \in 1..Len(texts) |->
        CASE func = "encode_queries" -> Embed(EncodeQueriesTable, texts[j])
          [] func = "encode_corpus" -> Embed(EncodeCorpusTable, texts[j])
          [] OTHER -> Embed(EncodeTable, texts[j])]

\* func([sample["query"] for sample in samples]): one embedding per element;
\* an element that is not a str is outside the encoder's vocabulary.
EncodeQueryObjects(func, queries) ==
    [j \in 1..Len(queries) |->
        IF IsStr(queries[j])
        THEN EncodeTexts(func, <<queries[j].text>>)[1]
        ELSE OovEmb]

Models == [has_encode_queries : BOOLEAN, has_encode_corpus : BOOLEAN]

\* isinstance(model, EncoderWithQueryCorpusEncode): the protocol asks for
\* both encode_queries and encode_corpus.
IsEncoderWithQueryCorpusEncode(m) == m.has_encode_queries /\ m.has_encode_corpus

\* The Euclidean length of an embedding (a whole number for every
\* embedding used here).
Norm(u) == CHOOSE n \in 0..(u[1] * u[1] + u[2] * u[2]) :
              n * n = u[1] * u[1] + u[2] * u[2]

\* The cosine of two embeddings, in units of 1/25; 0 for a zero vector.
Cosine(u, v) ==
    IF Norm(u) = 0 \/ Norm(v) = 0 THEN 0
    ELSE ((u[1] * v[1] + u[2] * v[2]) * 25) \div (Norm(u) * Norm(v))

\* cos_sim, the default similarity_fct: the cosine of every query row with
\* every candidate row, an R x C matrix (always two-dimensional).
similarity_fct(query_emb, docs_emb) ==
    [ndim |-> 2,
     data |-> [r \in 1..Len(query_emb) |->
                  [c \in 1..Len(docs_emb) |-> Cosine(query_emb[r], docs_emb[c])]]]

(***************************************************************************)
(* rerank                                                                  *)
(***************************************************************************)
SetMax(S) == CHOOSE m \in S : \A n \in S : n <= m

\* amax replaced by pred_scores[0]: the scores of the first query row.
amax_first_row(matrix) == matrix[1]

\* torch.amax(pred_scores, dim=0): the column-wise maximum.
amax(matrix) ==
    [c \in 1..Len(matrix[1]) |-> SetMax({matrix[r][c] : r \in 1..Len(matrix)})]

Returned(value) == [raised |-> "", value |-> value]
Raised(exc) == [raised |-> exc, value |-> <<>>]

\* rerank with the two emptiness checks in the other order.
rerank_docs_checked_first(query_emb, docs_emb) ==
    IF Len(docs_emb) = 0 THEN Returned(<<>>)
    ELSE IF Len(query_emb) = 0 THEN Raised("ValueError")
    ELSE LET pred_scores == similarity_fct(query_emb, docs_emb)
             scores == IF pred_scores.ndim > 1
                       THEN amax(pred_scores.data)
                       ELSE pred_scores.data
         IN  Returned(DictOfEnumerate(scores, Len(scores)))

\* rerank that treats an empty candidate block like an empty query block.
rerank_rejects_empty_docs(query_emb, docs_emb) ==
    IF Len(query_emb) = 0 \/ Len(docs_emb) = 0 THEN Raised("ValueError")
    ELSE LET pred_scores == similarity_fct(query_emb, docs_emb)
             scores == IF pred_scores.ndim > 1
                       THEN amax(pred_scores.data)
                       ELSE pred_scores.data
         IN  Returned(DictOfEnumerate(scores, Len(scores)))

rerank(query_emb, docs_emb) ==
    IF Len(query_emb) = 0 THEN Raised("ValueError")
    ELSE IF Len(docs_emb) = 0 THEN Returned(<<>>)
    ELSE LET pred_scores == similarity_fct(query_emb, docs_emb)
             scores == IF pred_scores.ndim > 1
                       THEN amax(pred_scores.data)
                       ELSE pred_scores.data
         IN  Returned(DictOfEnumerate(scores, Len(scores)))

\* Judgments that take the first len(positive) candidates for the relevant
\* ones, as when docs is positive + negative.
RelevanceJudgments_positives_first(docs, positive) ==
    DictOfEnumerate([j \in 1..Len(docs) |->
                        IF j <= Cardinality(positive) THEN 1 ELSE 0],
                    Len(docs))

\* {str(i): 1 if doc in positive else 0 for i, doc in enumerate(docs)}
RelevanceJudgments(docs, positive) ==
    DictOfEnumerate([j \in 1..Len(docs) |-> IF docs[j] \in positive THEN 1 ELSE 0],
                    Len(docs))

(***************************************************************************)
(* Inputs of a run.                                                        *)
(***************************************************************************)
SeqsUpTo(S, n) == UNION {[1..m -> S] : m \in 0..n}

\* The variant lists explored: "q2", "q1", "q2", ... cut at every length.
VariantLists ==
    {[j \in 1..n |-> IF j % 2 = 1 THEN "q2" ELSE "q1"] : n \in 0..MaxVariants}

Queries == {StrQuery(t) : t \in QueryTexts}
           \cup {ListQuery(vs) : vs \in VariantLists}

\* The candidate lists explored: "a" alone, and "b", "a", "a", ... cut at
\* every length; "a" is relevant and "b" is not.
CandidateLists ==
    {cs \in SeqsUpTo(DocTexts, MaxCands) :
        cs = <<"a">> \/ \A j \in 1..Len(cs) : cs[j] = (IF j = 1 THEN "b" ELSE "a")}

Positives == {{"a"}}

Samples == [query : Queries,
            positive : Positives,
            candidates : CandidateLists]

(***************************************************************************)
(* compute_metrics_batched                                                 *)
(***************************************************************************)
BatchedEncodeQueriesFunc(m) ==
    IF IsEncoderWithQueryCorpusEncode(m) THEN "encode_queries" ELSE "encode"
BatchedEncodeCorpusFunc(m) ==
    IF IsEncoderWithQueryCorpusEncode(m) THEN "encode_corpus" ELSE "encode"

\* [q for sample in samples for q in sample["query"]]: a str query yields
\* its characters.
AllQueryFlattened(ss) ==
    Flatten([j \in 1..Len(ss) |->
                IF IsList(ss[j].query) THEN ss[j].query.variants
                ELSE CharsOf(ss[j].query.text)])

\* all_docs: every sample's candidates, in sample order.
AllDocs(ss) == Flatten([j \in 1..Len(ss) |-> ss[j].candidates])

\* One query row per instance, whatever the form of its query.
num_subqueries_always_one(instance) == 1

\* len(instance["query"]) if isinstance(instance["query"], list) else 1
num_subqueries(instance) ==
    IF IsList(instance.query) THEN Len(instance.query.variants) ELSE 1

\* fake_qid taken from the running document offset.
BatchedFakeQid_docs_offset(query_idx, docs_idx) == str(docs_idx)

\* fake_qid of the batched loop: the running query offset, after it was
\* advanced past the instance (not the document offset).
BatchedFakeQid(query_idx, docs_idx) == str(query_idx)

BatchedInit ==
    [pc |-> "start", all_query_embs |-> <<>>, all_docs_embs |-> <<>>,
     query_idx |-> 0, docs_idx |-> 0, k |-> 0,
     query_emb |-> <<>>, docs_emb |-> <<>>,
     results |-> <<>>, qrels |-> <<>>, error |-> ""]

\* lines 124-154: choose the encode functions, encode the queries.
BatchedEncodeQueries ==
    /\ batched.pc = "start"
    /\ batched' =
         IF Len(samples) = 0
         THEN [batched EXCEPT !.pc = "raised", !.error = "IndexError"]
         ELSE IF IsStr(samples[1].query)
         THEN [batched EXCEPT
                 !.pc = "encoded_queries",
                 !.all_query_embs =
                     EncodeQueryObjects(BatchedEncodeQueriesFunc(model),
                                        [j \in 1..Len(samples) |-> samples[j].query])]
         ELSE IF IsList(samples[1].query)
         THEN [batched EXCEPT
                 !.pc = "encoded_queries",
                 !.all_query_embs =
                     EncodeTexts(BatchedEncodeQueriesFunc(model),
                                 AllQueryFlattened(samples))]
         ELSE [batched EXCEPT !.pc = "raised", !.error = "ValueError"]
    /\ UNCHANGED <<samples, model, individual, call>>

\* lines 156-168: encode the candidates, reset the offsets and collections.
BatchedEncodeCandidates ==
    /\ batched.pc = "encoded_queries"
    /\ batched' = [batched EXCEPT
                     !.pc = "loop",
                     !.all_docs_embs =
                         EncodeTexts(BatchedEncodeCorpusFunc(model), AllDocs(samples)),
                     !.query_idx = 0, !.docs_idx = 0,
                     !.results = <<>>, !.qrels = <<>>]
    /\ UNCHANGED <<samples, model, individual, call>>

\* lines 169-186: one iteration of the scoring loop.
BatchedScoreSample ==
    /\ batched.pc = "loop"
    /\ batched.k < Len(samples)
    /\ LET instance == samples[batched.k + 1]
           n == num_subqueries(instance)
           query_emb == Slice(batched.all_query_embs,
                              batched.query_idx, batched.query_idx + n)
           query_idx == batched.query_idx + n
           positive == instance.positive
           docs == instance.candidates
           num_doc == Len(docs)
           docs_emb == Slice(batched.all_docs_embs,
                             batched.docs_idx, batched.docs_idx + num_doc)
           docs_idx == batched.docs_idx + num_doc
           fake_qid == BatchedFakeQid(query_idx, docs_idx)
           scored == rerank(query_emb, docs_emb)
           entered == [batched EXCEPT
                         !.k = @ + 1,
                         !.query_emb = query_emb, !.query_idx = query_idx,
                         !.docs_emb = docs_emb, !.docs_idx = docs_idx]
       IN  batched' =
             IF scored.raised # ""
             THEN [entered EXCEPT !.pc = "raised", !.error = scored.raised]
             ELSE [entered EXCEPT
                     !.results = DictSet(@, fake_qid, scored.value),
                     !.qrels = DictSet(@, fake_qid,
                                       RelevanceJudgments(docs, positive))]
    /\ UNCHANGED <<samples, model, individual, call>>

\* lines 188-191: hand results and qrels to RetrievalEvaluator.evaluate.
BatchedEvaluate ==
    /\ batched.pc = "loop"
    /\ batched.k = Len(samples)
    /\ batched' = [batched EXCEPT !.pc = "evaluated"]
    /\ UNCHANGED <<samples, model, individual, call>>

(***************************************************************************)
(* compute_metrics_individual                                              *)
(***************************************************************************)
IndividualEncodeQueriesFunc(m) ==
    IF m.has_encode_queries THEN "encode_queries" ELSE "encode"
IndividualEncodeCorpusFunc(m) ==
    IF m.has_encode_corpus THEN "encode_corpus" ELSE "encode"

\* The evaluators are called one after the other (the calls are synchronous):
\* the individual one starts when the batched one has returned or raised.
BatchedReturned == batched.pc \in {"evaluated", "raised"}

\* query_emb and docs_emb are locals of the method: unbound until the first
\* assignment, and kept from one iteration to the next.
IndividualInit ==
    [pc |-> "loop", i |-> 0, bound |-> FALSE,
     query_emb |-> <<>>, docs_emb |-> <<>>,
     results |-> <<>>, qrels |-> <<>>, error |-> ""]

\* lines 209-227: one iteration of the loop over enumerate(samples).
IndividualScoreSample ==
    /\ BatchedReturned
    /\ individual.pc = "loop"
    /\ individual.i < Len(samples)
    /\ LET instance == samples[individual.i + 1]
           query == instance.query
           positive == instance.positive
           docs == instance.candidates
           encoded == IsStr(query)
           bound == individual.bound \/ encoded
           query_emb == IF encoded
                        THEN EncodeTexts(IndividualEncodeQueriesFunc(model),
                                         <<query.text>>)
                        ELSE individual.query_emb
           docs_emb == IF encoded
                       THEN EncodeTexts(IndividualEncodeCorpusFunc(model), docs)
                       ELSE individual.docs_emb
           fake_qid == str(individual.i)
           scored == IF bound THEN rerank(query_emb, docs_emb)
                     ELSE Raised("UnboundLocalError")
           entered == [individual EXCEPT
                         !.i = @ + 1, !.bound = bound,
                         !.query_emb = query_emb, !.docs_emb = docs_emb]
       IN  individual' =
             IF scored.raised # ""
             THEN [entered EXCEPT !.pc = "raised", !.error = scored.raised]
             ELSE [entered EXCEPT
                     !.results = DictSet(@, fake_qid, scored.value),
                     !.qrels = DictSet(@, fake_qid,
                                       RelevanceJudgments(docs, positive))]
    /\ UNCHANGED <<samples, model, batched, call>>

\* lines 229-232: hand results and qrels to RetrievalEvaluator.evaluate.
IndividualEvaluate ==
    /\ BatchedReturned
    /\ individual.pc = "loop"
    /\ individual.i = Len(samples)
    /\ individual' = [individual EXCEPT !.pc = "evaluated"]
    /\ UNCHANGED <<samples, model, batched, call>>

(***************************************************************************)
(* One call of rerank on arbitrary embedding blocks.                       *)
(***************************************************************************)
EmbPool == {<<5, 0>>, <<0, 5>>, <<3, 4>>, <<4, 3>>}

CallIdle == [pc |-> "idle", query_emb |-> <<>>, docs_emb |-> <<>>,
             raised |-> "", value |-> <<>>]

RerankCall ==
    /\ call.pc = "called"
    /\ LET out == rerank(call.query_emb, call.docs_emb)
       IN  call' = [call EXCEPT
                      !.pc = IF out.raised # "" THEN "raised" ELSE "returned",
                      !.raised = out.raised, !.value = out.value]
    /\ UNCHANGED <<samples, model, batched, individual>>

(***************************************************************************)
(* Specifications.                                                         *)
(***************************************************************************)
Init ==
    /\ samples \in SeqsUpTo(Samples, MaxSamples)
    /\ model \in Models
    /\ batched = BatchedInit
    /\ individual = IndividualInit
    /\ call = CallIdle

Next ==
    \/ BatchedEncodeQueries
    \/ BatchedEncodeCandidates
    \/ BatchedScoreSample
    \/ BatchedEvaluate
    \/ IndividualScoreSample
    \/ IndividualEvaluate

Spec == Init /\ [][Next]_vars

InitRerank ==
    /\ samples = <<>>
    /\ model = [has_encode_queries |-> FALSE, has_encode_corpus |-> FALSE]
    /\ batched = BatchedInit
    /\ individual = IndividualInit
    /\ \E q \in SeqsUpTo(EmbPool, MaxVariants), d \in SeqsUpTo(EmbPool, MaxCands) :
          call = [CallIdle EXCEPT !.pc = "called", !.query_emb = q, !.docs_emb = d]

NextRerank == RerankCall

SpecRerank == InitRerank /\ [][NextRerank]_vars

(***************************************************************************)
(* Vocabulary of the properties.                                           *)
(***************************************************************************)
\* The decimal key of a candidate index or sample identifier below ten.
Key(n) == Digit[n + 1]

KeysBelow(n) == {Key(c - 1) : c \in 1..n}

\* The texts of a sample's own query: the string, or its variants.
OwnQueryTexts(sample) ==
    IF IsStr(sample.query) THEN <<sample.query.text>> ELSE sample.query.variants

\* The number of query texts / candidates of the first j samples.
QueriesBefore(j) == SumSeq([l \in 1..j |-> Len(OwnQueryTexts(samples[l]))])
DocsBefore(j) == SumSeq([l \in 1..j |-> Len(samples[l].candidates)])

\* The samples whose maps a run has stored so far (1-based positions).
BatchedStored ==
    IF batched.pc = "raised" THEN 1..(batched.k - 1) ELSE 1..batched.k
IndividualStored ==
    IF individual.pc = "raised" THEN 1..(individual.i - 1) ELSE 1..individual.i

\* The identifier under which a run stores the j-th sample.
BatchedId(j) == Key(QueriesBefore(j))
IndividualId(j) == Key(j - 1)

AllStrQueries == \A j \in 1..Len(samples) : IsStr(samples[j].query)
UniformForms ==
    \A j \in 1..Len(samples) : samples[j].query.kind = samples[1].query.kind

\* The similarity of two embeddings of length 5, in units of 1/25: their
\* inner product.
Dot(u, v) == u[1] * v[1] + u[2] * v[2]

(***************************************************************************)
(* Properties of rerank (SpecRerank).                                      *)
(***************************************************************************)
CallDone == call.pc \in {"returned", "raised"}
R == Len(call.query_emb)
C == Len(call.docs_emb)

\* C3 (as stated): rerank returns the empty Score Map and raises nothing
\* whenever the candidate block has no rows, whatever the number of query
\* rows.
C3_EmptyCandidatesAnyR ==
    (CallDone /\ C = 0) => (call.pc = "returned" /\ call.value = <<>>)

\* C3 (amended): rerank returns the empty Score Map and raises nothing
\* whenever the candidate block has no rows and the query block has at least
\* one row.
C3_EmptyCandidates ==
    (CallDone /\ C = 0 /\ R >= 1) => (call.pc = "returned" /\ call.value = <<>>)

C3_Witness == call.pc = "returned" /\ C = 0 /\ R = 2

\* C4: rerank raises ValueError and returns no Score Map whenever the query
\* block has no rows, whatever the number of candidate rows, zero included.
C4_EmptyQueryRaises ==
    (CallDone /\ R = 0) =>
        (call.pc = "raised" /\ call.raised = "ValueError" /\ call.value = <<>>)

C4_Witness == call.pc = "raised" /\ R = 0 /\ C = 0

\* C5: with more than one query row and at least one candidate row, the
\* score of candidate i is the maximum over the query rows of the similarity
\* of that row with candidate i.
C5_MaxPool ==
    (CallDone /\ R > 1 /\ C >= 1) =>
        /\ call.pc = "returned"
        /\ \A c \in 1..C :
              LET score == call.value[Key(c - 1)]
              IN  /\ \A r \in 1..R : Dot(call.query_emb[r], call.docs_emb[c]) <= score
                  /\ \E r \in 1..R : Dot(call.query_emb[r], call.docs_emb[c]) = score

\* Two query rows, the second the better match of the first candidate and
\* the first the better match of the second.
C5_Witness ==
    /\ call.pc = "returned" /\ R = 2 /\ C = 2
    /\ Dot(call.query_emb[2], call.docs_emb[1]) > Dot(call.query_emb[1], call.docs_emb[1])
    /\ Dot(call.query_emb[1], call.docs_emb[2]) > Dot(call.query_emb[2], call.docs_emb[2])

(***************************************************************************)
(* Properties of the two strategies (Spec).                                *)
(***************************************************************************)
\* C1: on a sample set whose queries are all single strings, the batched and
\* the individual strategy hand the metrics engine the same Score Map and
\* the same Relevance Judgment Map for every sample (the j-th sample is
\* stored under the batched identifier j and the individual identifier
\* j - 1), whichever of encode_queries / encode_corpus the model offers.
C1_StrategiesAgree ==
    (AllStrQueries /\ batched.pc = "evaluated" /\ individual.pc = "evaluated") =>
        \A j \in 1..Len(samples) :
            /\ batched.results[BatchedId(j)] = individual.results[IndividualId(j)]
            /\ batched.qrels[BatchedId(j)] = individual.qrels[IndividualId(j)]

\* C2: in the individual strategy a sample whose query is a list of variants
\* is either refused with an error or scored from the embeddings of its own
\* variants and its own candidates: the Score Map stored for it is never
\* computed from another sample's embeddings.
C2_VariantListNeverStale ==
    \A j \in IndividualStored :
        IsList(samples[j].query) =>
            LET own == rerank(EncodeTexts(IndividualEncodeQueriesFunc(model),
                                          samples[j].query.variants),
                              EncodeTexts(IndividualEncodeCorpusFunc(model),
                                          samples[j].candidates))
            IN  /\ own.raised = ""
                /\ individual.results[IndividualId(j)] = own.value

\* C6: when a strategy has gone through its N samples and calls the metrics
\* engine, Results and Qrels have the same identifiers and exactly N of
\* them: no sample's maps were overwritten by another's.
C6_IdentifiersUnique ==
    /\ batched.pc = "evaluated" =>
          /\ DOMAIN batched.results = DOMAIN batched.qrels
          /\ Cardinality(DOMAIN batched.results) = Len(samples)
    /\ individual.pc = "evaluated" =>
          /\ DOMAIN individual.results = DOMAIN individual.qrels
          /\ Cardinality(DOMAIN individual.results) = Len(samples)

\* Both strategies completed on two samples, one of them with no candidate.
C6_Witness ==
    /\ batched.pc = "evaluated" /\ individual.pc = "evaluated"
    /\ Len(samples) = MaxSamples
    /\ \E j \in 1..Len(samples) : samples[j].candidates = <<>>
    /\ \E j \in 1..Len(samples) : Len(OwnQueryTexts(samples[j])) > 1

\* C7: on an empty sample set either strategy fails before it encodes
\* anything or calls the metrics engine (any exception raised at that point
\* is taken for the failure); it never gets as far as the metrics engine.
C7_EmptySampleSetRejected ==
    samples = <<>> =>
        /\ batched.pc = "start" \/ (batched.pc = "raised" /\ batched.k = 0)
        /\ individual.pc = "loop" \/ (individual.pc = "raised" /\ individual.i = 0)

\* C8: every Score Map a run stores has exactly the keys "0" .. "C-1" of
\* the sample's C candidates, the same key set as the sample's Relevance
\* Judgment Map.
C8_ScoreMapKeys ==
    /\ \A j \in BatchedStored :
          /\ DOMAIN batched.results[BatchedId(j)] = KeysBelow(Len(samples[j].candidates))
          /\ DOMAIN batched.results[BatchedId(j)] = DOMAIN batched.qrels[BatchedId(j)]
    /\ \A j \in IndividualStored :
          /\ DOMAIN individual.results[IndividualId(j)]
                = KeysBelow(Len(samples[j].candidates))
          /\ DOMAIN individual.results[IndividualId(j)]
                = DOMAIN individual.qrels[IndividualId(j)]

\* The Relevance Judgment Map expected of a sample.
JudgmentsAsExpected(judgments, sample) ==
    /\ DOMAIN judgments = KeysBelow(Len(sample.candidates))
    /\ \A c \in 1..Len(sample.candidates) :
          judgments[Key(c - 1)] = 1 <=> sample.candidates[c] \in sample.positive
    /\ \A c \in 1..Len(sample.candidates) : judgments[Key(c - 1)] \in {0, 1}

C10_Repartition ==
    (UniformForms /\ batched.k >= 1) =>
        LET instance == samples[batched.k]
        IN  /\ batched.query_emb =
                 EncodeTexts(BatchedEncodeQueriesFunc(model), OwnQueryTexts(instance))
            /\ batched.docs_emb =
                 EncodeTexts(BatchedEncodeCorpusFunc(model), instance.candidates)
            /\ batched.query_idx = QueriesBefore(batched.k)
            /\ batched.docs_idx = DocsBefore(batched.k)
            /\ batched.k = Len(samples) =>
                  /\ batched.query_idx = Len(batched.all_query_embs)
                  /\ batched.docs_idx = Len(batched.all_docs_embs)

\* The last of several variant-list samples was sliced, after a sample with
\* two variants.
C10_Witness ==
    /\ batched.pc = "evaluated" /\ Len(samples) >= 2
    /\ IsList(samples[1].query) /\ UniformForms
    /\ Len(samples[1].query.variants) = 2
    /\ samples[1].candidates # <<>>
    /\ samples[Len(samples)].candidates # <<>>

====
